---- MODULE Spec2Model ----
(***************************************************************************)
(* A model of the grammar miner of docs/beta/notebooks/GrammarMiner.ipynb: *)
(* the execution tracer (traceit, trace_function), the grammar extractor   *)
(* (nonterminal, get_grammar) and the grammar merger (merge_grammars,      *)
(* get_merged_grammar).                                                    *)
(*                                                                         *)
(* A Python str is a sequence of one-character strings.  A Python dict is  *)
(* a sequence of entries with distinct keys, in insertion order: the order *)
(* in which `for k in d` visits them.                                      *)
(***************************************************************************)
EXTENDS Naturals, Sequences, FiniteSets

VARIABLES
    entry,          \* the function the notebook called: the bottom of the call stack
    pc,             \* where the program stands (see the actions)
    hook,           \* the process-wide trace hook set by sys.settrace
    the_input,      \* global the_input
    the_values,     \* global the_values; get_grammar's `values` is this dict
    grammar,        \* get_grammar's local `grammar` / merge_grammars' g2
    merged_grammar, \* get_merged_grammar's local / merge_grammars' g1, updated in place
    exc,            \* the exception that ended the program, "" when none
    nevents,        \* trace events delivered during the current trace_function call
    log,            \* history: the frames traceit saw, kept when trace_function is called directly
    record0,        \* history: the trace record as trace_function returned it
    passes,         \* history: passes of get_grammar's loop that performed a substitution
    grammars,       \* history: the grammar get_grammar returned for each input so far
    g1,             \* history: the rules of g1 when merge_grammars was last called
    hook0,          \* the hook that was installed when trace_function was last called
    ncalls,         \* calls of get_grammar made by the notebook's cells so far
    clean,          \* history: the record that the callable's own frames give in this call
    memo,           \* history: the inputs the callable raised for, and the first
                    \* extraction that returned (input, frames' record, grammar)
    held            \* the g2 of the first merge, which the caller still holds

vars == <<entry, pc, hook, the_input, the_values, grammar, merged_grammar, exc,
          nevents, log, record0, passes, grammars, g1, hook0, ncalls, clean,
          memo, held>>

----------------------------------------------------------------------------
(* Bounds of the model *)

\* trace events delivered to traceit during one traced call
MaxEvents == 3
\* inputs one get_merged_grammar call iterates over
MaxInputs == 2
\* alternatives, over all its rules, of a grammar handed to merge_grammars directly
MaxAlts == 2
\* rule bodies substituted when a start rule is expanded back to a string
MaxExpand == 6

\* calls of get_grammar made by the notebook's cells
MaxCalls == 3

----------------------------------------------------------------------------
(* Python str *)

\* `sub` occurs in `s` at position i (1-based)
MatchAt(s, sub, i) ==
    /\ i >= 1
    /\ i + Len(sub) - 1 <= Len(s)
    /\ \A k \in 1..Len(sub) : s[i + k - 1] = sub[k]

\* Python's `sub in s`
Contains(s, sub) == \E i \in 1..(Len(s) + 1) : MatchAt(s, sub, i)

\* Python's s.replace(old, new) for a non-empty `old`: every non-overlapping
\* occurrence, scanning from the left
RECURSIVE ReplaceFrom(_, _, _, _)
ReplaceFrom(s, old, new, i) ==
    IF i > Len(s) THEN <<>>
    ELSE IF MatchAt(s, old, i) THEN new \o ReplaceFrom(s, old, new, i + Len(old))
    ELSE <<s[i]>> \o ReplaceFrom(s, old, new, i + 1)

\* a faulty variant of Replace: the first occurrence alone is replaced
Replace_first(s, old, new) ==
    IF \E i \in 1..Len(s) : MatchAt(s, old, i)
    THEN LET i == CHOOSE p \in 1..Len(s) :
                      MatchAt(s, old, p) /\ \A j \in 1..(p - 1) : ~MatchAt(s, old, j)
         IN  SubSeq(s, 1, i - 1) \o new \o SubSeq(s, i + Len(old), Len(s))
    ELSE s

\* Python's s.replace(old, new), for a non-empty old
Replace(s, old, new) == ReplaceFrom(s, old, new, 1)

\* Python's c.lower() on the characters variable names are made of here
LowerChar(c) == IF c = "X" THEN "x" ELSE IF c = "Y" THEN "y" ELSE c

\* Python's s.lower()
Lower(s) == [i \in 1..Len(s) |-> LowerChar(s[i])]

----------------------------------------------------------------------------
(* Python dict: a sequence of [key, val] entries with distinct keys *)

Keys(d) == {d[i].key : i \in 1..Len(d)}

HasKey(d, k) == \E i \in 1..Len(d) : d[i].key = k

\* d[k], for a key of d
Get(d, k) == d[CHOOSE i \in 1..Len(d) : d[i].key = k].val

\* d[k] = v: an existing key keeps its place, a new key goes last
Put(d, k, v) ==
    IF HasKey(d, k)
    THEN [i \in 1..Len(d) |-> IF d[i].key = k THEN [key |-> k, val |-> v] ELSE d[i]]
    ELSE Append(d, [key |-> k, val |-> v])

\* del d[k], for a key of d
Del(d, k) == SelectSeq(d, LAMBDA e : e.key # k)

----------------------------------------------------------------------------
(* The inputs and the traced callable's locals *)

\* the input strings handed to each function the notebook calls; the cells
\* that call get_grammar in a row take theirs from the last set
InputsOf(e) ==
    IF e = "trace_function"
    THEN { <<"a">>, <<"a", "b">>, <<"a", "b", "a">> }
    ELSE IF e = "get_grammar"
    THEN { <<"a">>, <<"a", "b">>, <<"a", "b", "a">>,
           <<"a", "b", "a", "a", "b">>, <<"<", "x", ">", "a", "b">> }
    ELSE { <<"a">>, <<"a", "b">>, <<"b", "a">> }

\* names of local variables of the traced callable
VarNames == { <<"x">>, <<"X">>, <<"y">> }

\* the substrings of s
Substrings(s) == { SubSeq(s, i, j) : i \in 1..Len(s), j \in 0..Len(s) } \ {<<>>}

\* a Python value: a str (isstr, with its characters) or an object of another type
StrVal(s) == [isstr |-> TRUE, s |-> s]
NoneVal == [isstr |-> FALSE, s |-> <<>>]

\* the values a local of the callable may hold while `inp` is traced: any
\* part of the input, a string that is no part of it, and a non-string
ValuesFor(inp) ==
    { StrVal(s) : s \in Substrings(inp) } \cup { StrVal(<<"z", "z">>), NoneVal }

\* frame.f_locals of one trace event: locals in the frame's order.  traceit
\* writes the_values once per local and keeps nothing else between events, so
\* a frame of several locals acts as that many events of one local each
FramesFor(inp) ==
    { <<>> } \cup
    { <<[key |-> n, val |-> v]>> : n \in VarNames, v \in ValuesFor(inp) }

----------------------------------------------------------------------------
(* Execution tracer *)

\* a faulty variant of Saved: the length test off by one
Saved_len1(value, input) ==
    value.isstr /\ Len(value.s) >= 1 /\ Contains(input, value.s)

\* traceit's test of one local: a non-trivial string that occurs in the input
Saved(value, input) ==
    value.isstr /\ Len(value.s) >= 2 /\ Contains(input, value.s)

\* a faulty variant of Store: the first value of a name is kept
Store_first(values, var, value) ==
    IF HasKey(values, var) THEN values ELSE Put(values, var, value)

\* traceit's `the_values[var] = value`
Store(values, var, value) == Put(values, var, value)

\* traceit's loop over frame.f_locals, from local number i on
RECURSIVE TraceLocals(_, _, _, _)
TraceLocals(locals, i, input, values) ==
    IF i > Len(locals) THEN values
    ELSE LET var == locals[i].key
             value == locals[i].val
         IN  IF Saved(value, input)
             THEN TraceLocals(locals, i + 1, input, Store(values, var, value.s))
             ELSE TraceLocals(locals, i + 1, input, values)

\* traceit(frame, event, arg): the_values after the event
traceit(locals, input, values) == TraceLocals(locals, 1, input, values)

----------------------------------------------------------------------------
(* Grammar extractor *)

\* START_SYMBOL of the Grammars module
START_SYMBOL == <<"<", "s", "t", "a", "r", "t", ">">>

\* nonterminal(var)
nonterminal(var) == <<"<">> \o Lower(var) \o <<">">>

\* get_grammar's loop over the alternatives of one rule, from alternative j on:
\* the alternatives after the loop and the triples it adds to new_rules
RECURSIVE ScanAlts(_, _, _, _)
ScanAlts(alts, j, var, value) ==
    IF j > Len(alts) THEN [alts |-> alts, hits |-> <<>>]
    ELSE LET repl == alts[j] IN
         IF Contains(repl, value)
         THEN LET alt_key == nonterminal(var)
                  rest == ScanAlts([alts EXCEPT ![j] = Replace(repl, value, alt_key)],
                                   j + 1, var, value)
              IN  [alts |-> rest.alts,
                   hits |-> <<[var |-> var, alt_key |-> alt_key, value |-> value]>>
                            \o rest.hits]
         ELSE ScanAlts(alts, j + 1, var, value)

\* get_grammar's loop `for key in grammar`, from rule k on
RECURSIVE ScanKeys(_, _, _, _)
ScanKeys(g, k, var, value) ==
    IF k > Len(g) THEN [grammar |-> g, hits |-> <<>>]
    ELSE LET one == ScanAlts(g[k].val, 1, var, value)
             rest == ScanKeys([g EXCEPT ![k].val = one.alts], k + 1, var, value)
         IN  [grammar |-> rest.grammar, hits |-> one.hits \o rest.hits]

\* get_grammar's loop `for var in values`, from entry i on
RECURSIVE ScanVars(_, _, _, _)
ScanVars(values, i, g, new_rules) ==
    IF i > Len(values) THEN [grammar |-> g, new_rules |-> new_rules]
    ELSE LET one == ScanKeys(g, 1, values[i].key, values[i].val)
         IN  ScanVars(values, i + 1, one.grammar, new_rules \o one.hits)

\* a faulty variant of AddRules: a promotion removes every variable that
\* holds the promoted value
RECURSIVE AddRules_byvalue(_, _, _, _)
AddRules_byvalue(new_rules, i, g, values) ==
    IF i > Len(new_rules) THEN [grammar |-> g, values |-> values, raised |-> FALSE]
    ELSE LET r == new_rules[i]
             g2 == Put(g, r.alt_key, <<r.value>>)
         IN  IF HasKey(values, r.var)
             THEN AddRules_byvalue(new_rules, i + 1, g2,
                                   SelectSeq(values, LAMBDA e : e.val # r.value))
             ELSE [grammar |-> g2, values |-> values, raised |-> TRUE]

\* a faulty variant of AddRules: the value joins the alternatives of a rule
\* that the grammar has already
RECURSIVE AddRules_append(_, _, _, _)
AddRules_append(new_rules, i, g, values) ==
    IF i > Len(new_rules) THEN [grammar |-> g, values |-> values, raised |-> FALSE]
    ELSE LET r == new_rules[i]
             g2 == IF HasKey(g, r.alt_key)
                   THEN Put(g, r.alt_key, Append(Get(g, r.alt_key), r.value))
                   ELSE Put(g, r.alt_key, <<r.value>>)
         IN  IF HasKey(values, r.var)
             THEN AddRules_append(new_rules, i + 1, g2, Del(values, r.var))
             ELSE [grammar |-> g2, values |-> values, raised |-> TRUE]

\* get_grammar's loop over new_rules, from triple i on: the grammar, the trace
\* record, and whether `del values[var]` raised KeyError
RECURSIVE AddRules(_, _, _, _)
AddRules(new_rules, i, g, values) ==
    IF i > Len(new_rules) THEN [grammar |-> g, values |-> values, raised |-> FALSE]
    ELSE LET r == new_rules[i]
             g2 == Put(g, r.alt_key, <<r.value>>)
         IN  IF HasKey(values, r.var)
             THEN AddRules(new_rules, i + 1, g2, Del(values, r.var))
             ELSE [grammar |-> g2, values |-> values, raised |-> TRUE]

----------------------------------------------------------------------------
(* Grammar merger *)

\* a faulty variant of Present: the test for an alternative already there is lost
Present_never(repl, repl1) == FALSE

\* merge_grammars' test `repl not in repl1`, negated
Present(repl, repl1) == \E a \in 1..Len(repl1) : repl1[a] = repl

\* a faulty variant of AddRule: the alternatives of the new rule in reverse order
AddRule_reversed(merged, key2, repl2) ==
    Put(merged, key2, [a \in 1..Len(repl2) |-> repl2[Len(repl2) + 1 - a]])

\* merge_grammars' `merged_grammar[key2] = repl2` for a key g1 lacks
AddRule(merged, key2, repl2) == Put(merged, key2, repl2)

\* merge_grammars' loop `for repl in repl2` for one pair key1 = key2, from
\* alternative r on; repl1 is what g1[key1] held before the loop
RECURSIVE MergeAlts(_, _, _, _, _)
MergeAlts(merged, key1, repl1, repl2, r) ==
    IF r > Len(repl2) THEN merged
    ELSE LET repl == repl2[r] IN
         IF Present(repl, repl1)
         THEN MergeAlts(merged, key1, repl1, repl2, r + 1)
         ELSE MergeAlts(Put(merged, key1, Append(repl1, repl)), key1, repl1, repl2, r + 1)

\* merge_grammars' loop `for key1 in g1`, from rule k on: g1 (which is
\* merged_grammar) and key_found
RECURSIVE MergeKey(_, _, _, _, _)
MergeKey(merged, key2, repl2, k, key_found) ==
    IF k > Len(merged) THEN [merged |-> merged, key_found |-> key_found]
    ELSE IF merged[k].key = key2 /\ Len(repl2) > 0
    THEN MergeKey(MergeAlts(merged, key2, merged[k].val, repl2, 1),
                  key2, repl2, k + 1, TRUE)
    ELSE MergeKey(merged, key2, repl2, k + 1, key_found)

\* merge_grammars' loop `for key2 in g2`, from rule k2 on
RECURSIVE MergeFrom(_, _, _)
MergeFrom(merged, g2, k2) ==
    IF k2 > Len(g2) THEN merged
    ELSE LET key2 == g2[k2].key
             repl2 == g2[k2].val
             m == MergeKey(merged, key2, repl2, 1, FALSE)
         IN  IF m.key_found
             THEN MergeFrom(m.merged, g2, k2 + 1)
             ELSE MergeFrom(AddRule(m.merged, key2, repl2), g2, k2 + 1)

\* a faulty variant of merge_grammars: the arguments taken in the other order
merge_grammars_swapped(a, b) == MergeFrom(b, a, 1)

\* merge_grammars(g1, g2): g1 after the call, which is what it returns
merge_grammars(a, b) == MergeFrom(a, b, 1)

----------------------------------------------------------------------------
(* The program *)

\* Python's None as the value of get_merged_grammar's merged_grammar.  A
\* grammar built by get_grammar always holds the start rule, so the empty
\* sequence stands for no other value of that variable.
None == <<>>

\* the callable has not been called yet
NoMemo == [set |-> FALSE, input |-> <<>>, clean |-> <<>>, grammar |-> <<>>,
           raised |-> {}]

\* no merge has been made yet
NoHeld == [set |-> FALSE, orig |-> <<>>, cur |-> <<>>, added |-> {}, shared |-> {}]

InitCommon ==
    /\ pc = "idle"
    /\ hook0 = "None"
    /\ ncalls = 0
    /\ clean = <<>>
    /\ memo = NoMemo
    /\ held = NoHeld
    /\ the_input = <<>>
    /\ the_values = <<>>
    /\ grammar = <<>>
    /\ exc = ""
    /\ nevents = 0
    /\ log = <<>>
    /\ record0 = <<>>
    /\ passes = 0
    /\ grammars = <<>>
    /\ g1 = <<>>

\* the locals of trace_function's own frame: the callable, the input and,
\* once the callable has returned, its result o
OwnFrame(inp, o) ==
    << [key |-> <<"f", "u", "n", "c", "t", "i", "o", "n">>, val |-> NoneVal],
       [key |-> <<"i", "n", "p", "u", "t">>, val |-> StrVal(inp)] >>
    \o o

\* trace_function(function, input) up to the call of the callable:
\* the globals are reset and the hook is installed.  When traceit is the
\* installed hook at the call already, the interpreter traces the frame of
\* trace_function too: the line events that follow `the_values = {}` hand
\* traceit that frame's locals.  (The events before that line write to the
\* dict that the line drops.)
TraceStart(inp) ==
    /\ the_input' = inp
    /\ the_values' = IF hook = "traceit"
                     THEN traceit(OwnFrame(inp, <<>>), inp, <<>>)
                     ELSE <<>>
    /\ hook0' = hook
    /\ clean' = <<>>
    /\ hook' = "traceit"
    /\ nevents' = 0
    /\ log' = <<>>
    /\ pc' = "function"

\* the notebook calls trace_function(FUNCTION, input)
CallTraceFunction(inp) ==
    /\ entry = "trace_function"
    /\ pc = "idle"
    /\ TraceStart(inp)
    /\ UNCHANGED <<entry, grammar, merged_grammar, exc, record0, passes, grammars, g1,
                   ncalls, memo, held>>

\* get_grammar(function, input) up to the call of the callable, called by the
\* notebook or by get_merged_grammar's loop for its next input
GetGrammar(inp) ==
    /\ \/ entry = "get_grammar" /\ pc = "idle"
       \/ entry = "get_merged_grammar" /\ pc \in {"idle", "iter"}
          /\ Len(grammars) < MaxInputs
    /\ grammar' = <<[key |-> START_SYMBOL, val |-> <<inp>>]>>
    /\ TraceStart(inp)
    /\ merged_grammar' = IF pc = "idle" THEN None ELSE merged_grammar
    /\ passes' = 0
    /\ record0' = <<>>
    /\ UNCHANGED <<entry, exc, grammars, g1, ncalls, memo, held>>

\* one trace event inside the callable: the interpreter calls the installed hook
TraceEvent(locals) ==
    /\ pc = "function"
    /\ hook = "traceit"
    /\ nevents < MaxEvents
    /\ the_values' = traceit(locals, the_input, the_values)
    /\ nevents' = nevents + 1
    /\ log' = IF entry = "trace_function" THEN Append(log, locals) ELSE log
    /\ clean' = traceit(locals, the_input, clean)
    /\ UNCHANGED <<entry, pc, hook, the_input, grammar, merged_grammar, exc,
                   record0, passes, grammars, g1, hook0, ncalls, memo, held>>

\* the values the callable may return for the_input.  Its result is bound to
\* trace_function's local o and no one reads it, unless the frame of
\* trace_function is traced
ReturnValues ==
    IF hook0 = "traceit" THEN ValuesFor(the_input) ELSE { NoneVal }

\* the callable returns o: trace_function removes the hook and returns
\* the_values.  When the frame of trace_function is traced, the line event of
\* `sys.settrace(None)` hands traceit that frame's locals first.  The callable
\* acts the same on the same input: it does not return for an input for
\* which it has raised
FunctionReturn(o) ==
    /\ pc = "function"
    /\ the_input \notin memo.raised
    /\ hook' = "None"
    /\ the_values' = IF hook0 = "traceit"
                     THEN traceit(OwnFrame(the_input, <<[key |-> <<"o">>, val |-> o]>>),
                                  the_input, the_values)
                     ELSE the_values
    /\ record0' = the_values'
    /\ pc' = IF entry = "trace_function" THEN "returned" ELSE "loop"
    /\ UNCHANGED <<entry, the_input, grammar, merged_grammar, exc,
                   nevents, log, passes, grammars, g1, hook0, ncalls, clean,
                   memo, held>>

\* the callable raises: the exception leaves trace_function at the call
\* `o = function(the_input)` and no caller catches it.  The callable acts
\* the same on the same input: it does not raise for an input for which it
\* has returned
FunctionRaise ==
    /\ pc = "function"
    /\ ~(memo.set /\ memo.input = the_input)
    /\ pc' = "raised"
    /\ exc' = "Exception"
    /\ memo' = [memo EXCEPT !.raised = @ \cup {the_input}]
    /\ UNCHANGED <<entry, hook, the_input, the_values, grammar, merged_grammar,
                   nevents, log, record0, passes, grammars, g1, hook0, ncalls,
                   clean, held>>

\* one iteration of get_grammar's `while True`: the scan, then either the
\* break and the return of the grammar, or the new rules
Pass ==
    /\ pc = "loop"
    /\ LET scan == ScanVars(the_values, 1, grammar, <<>>)
           add == AddRules(scan.new_rules, 1, scan.grammar, the_values)
       IN  IF Len(scan.new_rules) = 0
           THEN /\ pc' = IF entry = "get_merged_grammar" THEN "extracted" ELSE "returned"
                /\ grammars' = Append(grammars, grammar)
                /\ memo' = IF entry = "notebook" /\ ~memo.set
                           THEN [set |-> TRUE, input |-> the_input,
                                 clean |-> clean, grammar |-> grammar,
                                 raised |-> memo.raised]
                           ELSE memo
                /\ UNCHANGED <<grammar, the_values, exc, passes>>
           ELSE /\ grammar' = add.grammar
                /\ the_values' = add.values
                /\ passes' = passes + 1
                /\ pc' = IF add.raised THEN "raised" ELSE "loop"
                /\ exc' = IF add.raised THEN "KeyError" ELSE exc
                /\ UNCHANGED <<grammars, memo>>
    /\ UNCHANGED <<entry, hook, the_input, merged_grammar, nevents, log, record0, g1,
                   hook0, ncalls, clean, held>>

\* get_merged_grammar's loop body after get_grammar returned
MergeStep ==
    /\ pc = "extracted"
    /\ g1' = merged_grammar
    /\ merged_grammar' = IF merged_grammar = None THEN grammar
                         ELSE merge_grammars(merged_grammar, grammar)
    /\ pc' = "iter"
    /\ UNCHANGED <<entry, hook, the_input, the_values, grammar, exc, nevents, log,
                   record0, passes, grammars, hook0, ncalls, clean, memo, held>>

\* get_merged_grammar's loop ends and merged_grammar is returned
ReturnMerged ==
    /\ entry = "get_merged_grammar"
    /\ pc \in {"idle", "iter"}
    /\ pc' = "returned"
    /\ merged_grammar' = IF pc = "idle" THEN None ELSE merged_grammar
    /\ UNCHANGED <<entry, hook, the_input, the_values, grammar, exc, nevents, log,
                   record0, passes, grammars, g1, hook0, ncalls, clean, memo, held>>

\* get_merged_grammar(function, inputs)
Init ==
    /\ entry = "get_merged_grammar"
    /\ hook = "None"
    /\ merged_grammar = None
    /\ InitCommon

Next ==
    \/ \E inp \in InputsOf(entry) : GetGrammar(inp)
    \/ \E locals \in FramesFor(the_input) : TraceEvent(locals)
    \/ \E o \in ReturnValues : FunctionReturn(o)
    \/ FunctionRaise
    \/ Pass
    \/ MergeStep
    \/ ReturnMerged

Spec == Init /\ [][Next]_vars

\* get_grammar(function, input)
InitGrammar ==
    /\ entry = "get_grammar"
    /\ hook = "None"
    /\ merged_grammar = None
    /\ InitCommon

NextGrammar ==
    \/ \E inp \in InputsOf(entry) : GetGrammar(inp)
    \/ \E locals \in FramesFor(the_input) : TraceEvent(locals)
    \/ \E o \in ReturnValues : FunctionReturn(o)
    \/ FunctionRaise
    \/ Pass

SpecGrammar == InitGrammar /\ [][NextGrammar]_vars

\* trace_function(function, input)
InitTrace ==
    /\ entry = "trace_function"
    /\ hook = "None"
    /\ merged_grammar = None
    /\ InitCommon

NextTrace ==
    \/ \E inp \in InputsOf(entry) : CallTraceFunction(inp)
    \/ \E locals \in FramesFor(the_input) : TraceEvent(locals)
    \/ \E o \in ReturnValues : FunctionReturn(o)
    \/ FunctionRaise

SpecTrace == InitTrace /\ [][NextTrace]_vars

\* the hooks that may be installed when the notebook's first cell runs: none,
\* or the hook of another tool
PriorHooks == { "None", "other" }

\* a cell of the notebook calls get_grammar(FUNCTION, input), as the cells
\* before it did; an exception that ended a cell does not keep the next
\* one from running
CellGetGrammar(inp) ==
    /\ entry = "notebook"
    /\ pc \in {"idle", "returned", "raised"}
    /\ ncalls < MaxCalls
    /\ ncalls' = ncalls + 1
    /\ grammar' = <<[key |-> START_SYMBOL, val |-> <<inp>>]>>
    /\ TraceStart(inp)
    /\ exc' = ""
    /\ passes' = 0
    /\ record0' = <<>>
    /\ grammars' = <<>>
    /\ UNCHANGED <<entry, merged_grammar, g1, memo, held>>

\* the cells of the notebook that call get_grammar, one after the other
InitNotebook ==
    /\ entry = "notebook"
    /\ hook \in PriorHooks
    /\ merged_grammar = None
    /\ InitCommon

NextNotebook ==
    \/ \E inp \in InputsOf(entry) : CellGetGrammar(inp)
    \/ \E locals \in FramesFor(the_input) : TraceEvent(locals)
    \/ \E o \in ReturnValues : FunctionReturn(o)
    \/ FunctionRaise
    \/ Pass

SpecNotebook == InitNotebook /\ [][NextNotebook]_vars

\* merge_grammars(g1, g2), called with grammars of the caller's own

\* alternatives of the grammars handed to merge_grammars
MergeAlternatives == { <<"x">>, <<"y">>, <<"z">> }

\* the sequences over S of length n without a repeated element
RECURSIVE Arrangements(_, _)
Arrangements(S, n) ==
    IF n = 0 THEN { <<>> }
    ELSE { Append(q, e) : q \in Arrangements(S, n - 1), e \in S } \ 
         { q \in { Append(q, e) : q \in Arrangements(S, n - 1), e \in S } :
             \E i, j \in 1..Len(q) : i # j /\ q[i] = q[j] }

\* rules: a non-empty sequence of distinct alternatives
RuleBodies == UNION { Arrangements(MergeAlternatives, n) : n \in 1..MaxAlts }

\* the alternatives of a grammar, counted over all its rules
RECURSIVE Size(_)
Size(g) == IF g = <<>> THEN 0 ELSE Len(g[1].val) + Size(Tail(g))

\* the orders in which a grammar handed to merge_grammars may hold its keys
KeyOrders == { <<>>, << <<"<", "a", ">">> >>, << <<"<", "b", ">">> >>,
               << <<"<", "a", ">">>, <<"<", "b", ">">> >> }

\* grammars: a dict from some of MergeKeys to rules, of at most MaxAlts
\* alternatives in all
GrammarSet ==
    { g \in UNION { { [i \in 1..Len(ks) |-> [key |-> ks[i], val |-> body[i]]] :
                        body \in [1..Len(ks) -> RuleBodies] } : ks \in KeyOrders } :
        Size(g) <= MaxAlts }

\* the caller merges g2 into the accumulator it holds
MergeCall(b) ==
    /\ entry = "merge_grammars"
    /\ pc \in {"idle", "returned"}
    /\ g1' = merged_grammar
    /\ grammar' = b
    /\ merged_grammar' = merge_grammars(merged_grammar, b)
    /\ pc' = "returned"
    /\ UNCHANGED <<entry, hook, the_input, the_values, exc, nevents, log,
                   record0, passes, grammars, hook0, ncalls, clean, memo, held>>

InitMerge ==
    /\ entry = "merge_grammars"
    /\ hook = "None"
    /\ merged_grammar \in GrammarSet
    /\ InitCommon

NextMerge == \E b \in GrammarSet : MergeCall(b)

SpecMerge == InitMerge /\ [][NextMerge]_vars

\* a faulty variant of ListAfterExtend: the rule is extended by
\* repl1.append(repl)
ListAfterExtend_inplace(body, is_repl1, repl) ==
    IF is_repl1 THEN Append(body, repl) ELSE body

\* the content of a list object after `merged_grammar[key1] = repl1 + [repl]`,
\* the object being repl1 or not: `+` builds a new list and leaves repl1 alone
ListAfterExtend(body, is_repl1, repl) == body

\* the content of a list object after merge_grammars' loop `for repl in
\* repl2` for key1 = key2, from alternative r of repl2 on; repl1 holds the
\* list that the accumulator had for key1 when the loop began, which is the
\* object itself or not
RECURSIVE ListAfterLoop(_, _, _, _, _)
ListAfterLoop(body, is_repl1, repl1, repl2, r) ==
    IF r > Len(repl2) THEN body
    ELSE IF Present(repl2[r], IF is_repl1 THEN body ELSE repl1)
    THEN ListAfterLoop(body, is_repl1, repl1, repl2, r + 1)
    ELSE ListAfterLoop(ListAfterExtend(body, is_repl1, repl2[r]),
                       is_repl1, repl1, repl2, r + 1)

\* merge_grammars(acc, b) assigns a new list to rule k of the accumulator
Rebound(acc, b, k) ==
    /\ HasKey(acc, k) /\ HasKey(b, k)
    /\ \E a \in 1..Len(Get(b, k)) : ~Present(Get(b, k)[a], Get(acc, k))

\* the caller merges g2 into the accumulator it holds and keeps the g2 of its
\* first merge.  `merged_grammar[key2] = repl2` makes the list of a rule that
\* the accumulator lacked a list of both dicts, until the accumulator's rule
\* is assigned a new list
MergeHeld(b) ==
    /\ entry = "merge_grammars"
    /\ pc \in {"idle", "returned"}
    /\ merged_grammar' = merge_grammars(merged_grammar, b)
    /\ held' =
         IF ~held.set
         THEN [set |-> TRUE, orig |-> b, cur |-> b,
               added |-> Keys(b) \ Keys(merged_grammar),
               shared |-> Keys(b) \ Keys(merged_grammar)]
         ELSE [held EXCEPT
                 !.cur = [i \in 1..Len(held.cur) |->
                            IF held.cur[i].key \in held.shared /\ HasKey(b, held.cur[i].key)
                            THEN [key |-> held.cur[i].key,
                                  val |-> ListAfterLoop(held.cur[i].val, TRUE,
                                                        Get(merged_grammar, held.cur[i].key),
                                                        Get(b, held.cur[i].key), 1)]
                            ELSE held.cur[i]],
                 !.shared = { k \in held.shared : ~Rebound(merged_grammar, b, k) }]
    /\ pc' = "returned"
    /\ UNCHANGED <<entry, hook, the_input, the_values, grammar, exc, nevents, log,
                   record0, passes, grammars, g1, hook0, ncalls, clean, memo>>

NextHeld == \E b \in GrammarSet : MergeHeld(b)

\* merges into one accumulator, seen from the caller that keeps its first g2
SpecHeld == InitMerge /\ [][NextHeld]_vars

----------------------------------------------------------------------------
(* Properties of the execution tracer, under SpecTrace *)

\* a value the tracer is to record: a string of length at least 2 that is a
\* part of the input
Qualifying(v, input) == v.isstr /\ Len(v.s) >= 2 /\ v.s \in Substrings(input)

\* the events of the current call at which local n held a qualifying value
QualifyingEvents(n) ==
    { i \in 1..Len(log) :
        \E j \in 1..Len(log[i]) :
            log[i][j].key = n /\ Qualifying(log[i][j].val, the_input) }

\* the qualifying values local n held at event i
QualifyingAt(n, i) ==
    { log[i][j].val.s : j \in { j \in 1..Len(log[i]) :
        log[i][j].key = n /\ Qualifying(log[i][j].val, the_input) } }

\* C1: once trace_function has exited, by return or by exception, the trace
\* hook is no longer traceit
C1_HookRemovedOnExit ==
    pc \in {"returned", "raised"} => hook # "traceit"

\* C2: the record trace_function returns has an entry for a name exactly when
\* that name was seen bound to a qualifying value at some event of the call,
\* and the value of the entry is such a value: no string of length 1, no
\* non-string and no string foreign to the input is recorded
C2_RecordedIffQualifying ==
    (entry = "trace_function" /\ pc = "returned") =>
        /\ \A i \in 1..Len(the_values) :
              \E e \in QualifyingEvents(the_values[i].key) :
                  the_values[i].val \in QualifyingAt(the_values[i].key, e)
        /\ \A n \in VarNames : QualifyingEvents(n) # {} => HasKey(the_values, n)

\* a call that saw a string of length 1, a string foreign to the input and a
\* qualifying string, and returned a record with an entry
C2_Witness ==
    /\ entry = "trace_function" /\ pc = "returned"
    /\ \E i \in 1..Len(log) : \E j \in 1..Len(log[i]) :
          log[i][j].val.isstr /\ Len(log[i][j].val.s) = 1
    /\ \E i \in 1..Len(log) : \E j \in 1..Len(log[i]) :
          log[i][j].val.isstr /\ ~Contains(the_input, log[i][j].val.s)
    /\ Len(the_values) = 1

\* C3: the value the returned record holds for a name is the qualifying value
\* of the latest event at which the name held one, and the record holds one
\* entry per name
C3_LastWriteWins ==
    (entry = "trace_function" /\ pc = "returned") =>
        \A i \in 1..Len(the_values) :
            LET n == the_values[i].key
                last == CHOOSE e \in QualifyingEvents(n) :
                            \A f \in QualifyingEvents(n) : f <= e
            IN  /\ QualifyingEvents(n) # {}
                /\ QualifyingAt(n, last) = { the_values[i].val }
                /\ \A k \in 1..Len(the_values) : the_values[k].key = n => k = i

\* a call in which one name held two different qualifying values, with an
\* event of another name in between
C3_Witness ==
    /\ entry = "trace_function" /\ pc = "returned"
    /\ \E n \in VarNames : \E e, f \in QualifyingEvents(n) :
          /\ e + 1 < f
          /\ QualifyingAt(n, e) # QualifyingAt(n, f)

----------------------------------------------------------------------------
(* Nonterminal references, as the grammar's consumers read them *)

\* s[i..j] is a nonterminal reference: "<", then characters other than
\* "<", ">" and the space, then ">"
RefAt(s, i, j) ==
    /\ 1 <= i /\ i < j /\ j <= Len(s)
    /\ s[i] = "<"
    /\ s[j] = ">"
    /\ \A k \in (i + 1)..(j - 1) : s[k] \notin {"<", ">", " "}

\* the nonterminals referenced in alternative s
Refs(s) ==
    { SubSeq(s, p[1], p[2]) :
        p \in { q \in (1..Len(s)) \X (1..Len(s)) : RefAt(s, q[1], q[2]) } }

\* s with its leftmost nonterminal reference replaced by the body of that
\* nonterminal's rule, again and again, at most n times: the string reached
\* and whether it is free of references
RECURSIVE Expand(_, _, _)
Expand(g, s, n) ==
    LET places == { q \in (1..Len(s)) \X (1..Len(s)) : RefAt(s, q[1], q[2]) }
    IN  IF places = {} THEN [done |-> TRUE, s |-> s]
        ELSE LET p == CHOOSE q \in places : \A r \in places : q[1] <= r[1]
                 key == SubSeq(s, p[1], p[2])
             IN  IF n = 0 \/ ~HasKey(g, key) THEN [done |-> FALSE, s |-> s]
                 ELSE Expand(g, SubSeq(s, 1, p[1] - 1) \o Get(g, key)[1]
                                \o SubSeq(s, p[2] + 1, Len(s)), n - 1)

----------------------------------------------------------------------------
(* Properties of the grammar extractor, under SpecGrammar *)

\* C4: get_grammar's loop ends by returning the grammar, never by an
\* exception of its own, after at most as many substituting passes as the
\* trace record had entries
C4_TerminatesWithinK ==
    /\ exc # "KeyError"
    /\ passes <= Len(record0)

\* C5: expanding the nonterminals of the returned grammar's start rule back
\* to their rule bodies yields the input
C5_StartRuleRoundTrip ==
    (entry = "get_grammar" /\ pc = "returned") =>
        /\ HasKey(grammar, START_SYMBOL)
        /\ Len(Get(grammar, START_SYMBOL)) = 1
        /\ Expand(grammar, Get(grammar, START_SYMBOL)[1], MaxExpand)
             = [done |-> TRUE, s |-> the_input]

\* C10: every nonterminal referenced in an alternative of the returned
\* grammar is a key of it
C10_ReferencesDefined ==
    (entry = "get_grammar" /\ pc = "returned") =>
        \A k \in 1..Len(grammar) : \A a \in 1..Len(grammar[k].val) :
            Refs(grammar[k].val[a]) \subseteq Keys(grammar)

\* the places of s at which sub occurs
Occurrences(s, sub) == { i \in 1..Len(s) : MatchAt(s, sub, i) }

\* the occurrences of sub in s that s.replace takes: the leftmost one, then
\* the leftmost one that starts after the end of the one taken before
Taken(s, sub) ==
    { i \in Occurrences(s, sub) :
        \E n \in 1..Len(s) : \E f \in [1..n -> Occurrences(s, sub)] :
            /\ f[n] = i
            /\ \A j \in Occurrences(s, sub) : f[1] <= j
            /\ \A m \in 1..(n - 1) :
                  /\ f[m] + Len(sub) <= f[m + 1]
                  /\ \A j \in Occurrences(s, sub) :
                        f[m] + Len(sub) <= j => f[m + 1] <= j }

\* s with the occurrences of sub at the places T, from place i on, written as new
RECURSIVE Rewritten(_, _, _, _, _)
Rewritten(s, sub, new, T, i) ==
    IF i > Len(s) THEN <<>>
    ELSE IF i \in T THEN new \o Rewritten(s, sub, new, T, i + Len(sub))
    ELSE <<s[i]>> \o Rewritten(s, sub, new, T, i + 1)

\* the state after the first pass of an extraction whose trace record held
\* one variable
FirstPassOfOne ==
    /\ entry = "get_grammar" /\ pc = "loop" /\ passes = 1
    /\ Len(record0) = 1

\* C12 as stated: the pass replaces the first occurrence of the value in the
\* alternative by the nonterminal and leaves further occurrences as text
C12_FirstOccurrenceOnly ==
    FirstPassOfOne =>
        LET value == record0[1].val
            first == CHOOSE i \in Occurrences(the_input, value) :
                         \A j \in Occurrences(the_input, value) : i <= j
        IN  grammar[1].val[1] =
                Rewritten(the_input, value, nonterminal(record0[1].key), {first}, 1)

\* C12: the pass replaces every occurrence of the value in the alternative,
\* taken from the left without overlap, by the nonterminal
C12_EveryOccurrence ==
    FirstPassOfOne =>
        LET value == record0[1].val
        IN  grammar[1].val[1] =
                Rewritten(the_input, value, nonterminal(record0[1].key),
                          Taken(the_input, value), 1)

\* a first pass over an alternative that holds the value twice
C12_Witness ==
    /\ FirstPassOfOne
    /\ \E i, j \in Occurrences(the_input, record0[1].val) :
          i + Len(record0[1].val) <= j

\* the pending triples name new nonterminals, one per variable
FreshNonterminals(new_rules, g) ==
    \A i \in 1..Len(new_rules) :
        /\ ~HasKey(g, new_rules[i].alt_key)
        /\ \A j \in 1..Len(new_rules) :
              new_rules[i].alt_key = new_rules[j].alt_key
                  => new_rules[i].var = new_rules[j].var

\* C13: a pass that recorded pending triples ends, without an exception and
\* with the extraction in its loop, in a trace record without the triples'
\* variables and (when the triples name new nonterminals, one per variable)
\* in a grammar that maps each triple's nonterminal to the one alternative
\* [value]
C13_PendingPromoted ==
    [][pc = "loop" =>
         LET new_rules == ScanVars(the_values, 1, grammar, <<>>).new_rules
         IN  \A i \in 1..Len(new_rules) :
                /\ exc' = exc
                /\ pc' = "loop"
                /\ ~HasKey(the_values', new_rules[i].var)
                /\ FreshNonterminals(new_rules, grammar) =>
                      /\ HasKey(grammar', new_rules[i].alt_key)
                      /\ Get(grammar', new_rules[i].alt_key) = <<new_rules[i].value>>]_vars

\* C14 as stated: of two variables that the trace record held with the same
\* value, under different nonterminals, the returned grammar has no rule for
\* the one processed second
C14_SecondGetsNoRule ==
    (entry = "get_grammar" /\ pc = "returned") =>
        \A i, j \in 1..Len(record0) :
            ( /\ i < j
              /\ record0[i].val = record0[j].val
              /\ nonterminal(record0[i].key) # nonterminal(record0[j].key) )
            => ~HasKey(grammar, nonterminal(record0[j].key))

\* C14: when the trace record held two variables, both with the same value,
\* the returned grammar has a rule for the one processed first and a rule
\* for the other, whose body, under a nonterminal of its own, is the value
C14_BothGetRules ==
    ( /\ entry = "get_grammar" /\ pc = "returned"
      /\ Len(record0) = 2
      /\ record0[1].val = record0[2].val )
    => /\ HasKey(grammar, nonterminal(record0[1].key))
       /\ HasKey(grammar, nonterminal(record0[2].key))
       /\ nonterminal(record0[1].key) # nonterminal(record0[2].key)
             => Get(grammar, nonterminal(record0[2].key)) = <<record0[2].val>>

\* an extraction from two variables of one value in which the second
\* matched one pass after the first, inside the rule made for the first
C14_Witness ==
    /\ entry = "get_grammar" /\ pc = "returned"
    /\ Len(record0) = 2
    /\ record0[1].val = record0[2].val
    /\ nonterminal(record0[1].key) # nonterminal(record0[2].key)
    /\ passes = 2
    /\ HasKey(grammar, nonterminal(record0[1].key))
    /\ Get(grammar, nonterminal(record0[1].key)) = <<nonterminal(record0[2].key)>>

\* every rule of g has exactly one alternative
SingleAlternatives(g) == \A k \in 1..Len(g) : Len(g[k].val) = 1

\* C16: from the initialisation of get_grammar's grammar on, between the
\* passes, after a pass's scan and in the returned grammar, every rule, the
\* start rule included, has exactly one alternative
C16_SingleAlternative ==
    (entry = "get_grammar" /\ pc # "idle") =>
        /\ HasKey(grammar, START_SYMBOL)
        /\ SingleAlternatives(grammar)
        /\ pc = "loop" =>
              SingleAlternatives(ScanVars(the_values, 1, grammar, <<>>).grammar)

\* a returned grammar of three rules or more, built in two passes or more,
\* with a rule whose alternative a later pass rewrote
C16_Witness ==
    /\ entry = "get_grammar" /\ pc = "returned"
    /\ Len(grammar) >= 3
    /\ passes >= 2
    /\ \E k \in 2..Len(grammar) : Refs(grammar[k].val[1]) # {}

\* C17: in a pass, no pending triple names a nonterminal that is a key of the
\* grammar already or that another variable's triple names too, and every
\* rule the grammar had before the pass is there after it with the
\* alternative that the pass's in-place substitutions gave it
C17_NoRuleOverwritten ==
    [][pc = "loop" =>
         LET scan == ScanVars(the_values, 1, grammar, <<>>)
         IN  /\ FreshNonterminals(scan.new_rules, grammar)
             /\ \A k \in Keys(grammar) :
                   /\ HasKey(grammar', k)
                   /\ Get(grammar', k) = Get(scan.grammar, k)]_vars

----------------------------------------------------------------------------
(* Properties of the grammar merger, under SpecMerge *)

\* alternative alt is one of rule `key` of grammar g
HasAlt(g, key, alt) ==
    HasKey(g, key) /\ \E a \in 1..Len(Get(g, key)) : Get(g, key)[a] = alt

\* no rule of g holds an alternative twice
NoRepeat(g) ==
    \A k \in 1..Len(g) : \A a, b \in 1..Len(g[k].val) :
        g[k].val[a] = g[k].val[b] => a = b

\* C6: every alternative g1 or g2 had for a nonterminal is an alternative of
\* that nonterminal in the merged grammar
C6_MergeContains ==
    (entry = "merge_grammars" /\ pc = "returned") =>
        /\ \A k \in 1..Len(g1) : \A a \in 1..Len(g1[k].val) :
              HasAlt(merged_grammar, g1[k].key, g1[k].val[a])
        /\ \A k \in 1..Len(grammar) : \A a \in 1..Len(grammar[k].val) :
              HasAlt(merged_grammar, grammar[k].key, grammar[k].val[a])

\* C7: merging grammars whose rules hold no alternative twice, any number
\* of times into the same accumulator, leaves no rule with an alternative twice
C7_MergeNoDuplicates ==
    entry = "merge_grammars" => NoRepeat(merged_grammar)

\* a merge into an accumulator that earlier merges had extended, of a grammar
\* that has an alternative the accumulator already had for the same key
C7_Witness ==
    /\ entry = "merge_grammars" /\ pc = "returned"
    /\ \E k \in 1..Len(g1) :
          /\ Len(g1[k].val) > MaxAlts
          /\ \E a \in 1..Len(g1[k].val) : HasAlt(grammar, g1[k].key, g1[k].val[a])

\* C8: the keys of the merged grammar are those of g1 and of g2; a rule of
\* g1 alone keeps its alternatives, a rule of g2 alone has g2's alternatives
\* in g2's order
C8_MergeUnion ==
    (entry = "merge_grammars" /\ pc = "returned") =>
        /\ Keys(merged_grammar) = Keys(g1) \cup Keys(grammar)
        /\ \A k \in Keys(g1) \ Keys(grammar) : Get(merged_grammar, k) = Get(g1, k)
        /\ \A k \in Keys(grammar) \ Keys(g1) : Get(merged_grammar, k) = Get(grammar, k)

\* a merge in which g1 has a rule g2 lacks and g2 a rule of two alternatives
\* that g1 lacks
C8_Witness ==
    /\ entry = "merge_grammars" /\ pc = "returned"
    /\ Keys(g1) \ Keys(grammar) # {}
    /\ \E k \in Keys(grammar) \ Keys(g1) : Len(Get(grammar, k)) = 2

----------------------------------------------------------------------------
(* Properties of repeated extraction, under SpecNotebook *)

\* C15: when trace_function has returned, the installed hook is the one that
\* was installed when it was called
C15_HookRestored ==
    (entry = "notebook" /\ pc \in {"loop", "returned"}) => hook = hook0

\* C11: an extraction that returns, for the input of the first extraction
\* that returned and with frames of the callable that give the record they
\* gave then, returns the grammar that was returned then: the same rules with
\* the same alternatives in the same order
C11_SameGrammarAgain ==
    ( /\ entry = "notebook" /\ pc = "returned"
      /\ memo.set
      /\ the_input = memo.input
      /\ clean = memo.clean )
    => grammar = memo.grammar

----------------------------------------------------------------------------
(* Properties of the merger's argument, under SpecHeld *)

\* C18: the g2 of a merge has, after that merge and after any further merges
\* into the same accumulator, the keys and the alternatives it had when it
\* was passed, in the same order
C18_G2Unchanged ==
    (entry = "merge_grammars" /\ held.set) => held.cur = held.orig

\* a rule of g2 that the merge added to the accumulator and that a later
\* merge into the accumulator extended
C18_Witness ==
    /\ entry = "merge_grammars" /\ held.set
    /\ \E k \in held.added \ held.shared :
          Len(Get(merged_grammar, k)) > Len(Get(held.orig, k))

----------------------------------------------------------------------------
(* Properties of get_merged_grammar, under Spec *)

\* the alternatives the grammars of the first n inputs have for key k, each
\* once, in the order of the first input whose grammar has it
RECURSIVE OrderedUnion(_, _)
OrderedUnion(k, n) ==
    IF n = 0 THEN <<>>
    ELSE LET before == OrderedUnion(k, n - 1)
             mine == IF HasKey(grammars[n], k) THEN Get(grammars[n], k) ELSE <<>>
         IN  before \o SelectSeq(mine,
                 LAMBDA alt : \A a \in 1..Len(before) : before[a] # alt)

\* C9: the grammar get_merged_grammar returns has, for each nonterminal of a
\* per-input grammar, the alternatives of the per-input grammars, each once,
\* in the order of the inputs
C9_MergedIsOrderedUnion ==
    (entry = "get_merged_grammar" /\ pc = "returned" /\ Len(grammars) >= 1) =>
        /\ Keys(merged_grammar) = UNION { Keys(grammars[i]) : i \in 1..Len(grammars) }
        /\ \A k \in Keys(merged_grammar) :
              Get(merged_grammar, k) = OrderedUnion(k, Len(grammars))

\* two inputs whose grammars share a rule with the same alternative and a
\* rule with different alternatives, the second having a rule the first lacks
C9_Witness ==
    /\ entry = "get_merged_grammar" /\ pc = "returned" /\ Len(grammars) = 2
    /\ \E k \in Keys(grammars[1]) \cap Keys(grammars[2]) :
          Get(grammars[1], k) = Get(grammars[2], k)
    /\ \E k \in Keys(grammars[1]) \cap Keys(grammars[2]) :
          /\ Get(grammars[1], k) # Get(grammars[2], k)
          /\ Len(Get(merged_grammar, k)) = 2
    /\ Keys(grammars[2]) \ Keys(grammars[1]) # {}

====
